---- MODULE Spec2Model ----
(***************************************************************************)
(* Verification model of the PackPals staff dashboard.                     *)
(*                                                                         *)
(* Part 1: the payout workflow screen (PayoutManagement.tsx, the           *)
(*         useStaffPayout mutation hooks and StaffPayoutAPI).              *)
(* Part 2: the push-notification client (StaffSignalRService) and the      *)
(*         notification hooks (useStaffSignalR, both variants).            *)
(* Parts 4 to 6: hub messages and their subscribers, the stored session,   *)
(*         request review and user ban.                                    *)
(* Parts 7 to 9: remote calls and their timeouts, the complete-payout      *)
(*         request, the page navigation.                                   *)
(***************************************************************************)
EXTENDS Integers, Sequences, FiniteSets, TLC

(***************************************************************************)
(* Bounds of the model.                                                    *)
(***************************************************************************)
NumPayouts == 2
MaxDirectCalls == 1

Payouts == 1..NumPayouts

\* one call per mutation through its button, the others through direct calls
MaxInFlight == MaxDirectCalls + 1

(***************************************************************************)
(* Part 1: payout workflow.                                                *)
(***************************************************************************)
VARIABLES
    server,               \* the backend's payout records (external REST backend)
    payoutRequests,       \* the query cache shown in the table
    selectedPayout,       \* id of the row whose modal was opened, 0 stands for null
    showUploadModal,
    showCompleteModal,
    showDetailsModal,
    uploadFile,           \* TRUE when an image file is chosen
    inflight,             \* per mutation, the remote calls awaiting a response
    isPending,            \* per mutation, useMutation().isPending
    toast,                \* the toast last shown
    directCalls           \* how many times a handler was called past its button

payoutVars == <<server, payoutRequests, selectedPayout, showUploadModal,
                showCompleteModal, showDetailsModal, uploadFile, inflight, isPending, toast, directCalls>>

\* the notification client (Part 2)
VARIABLES
    connState,            \* connection.state of the HubConnection
    isConnected,          \* StaffSignalRService.isConnected
    reconnectAttempts,    \* StaffSignalRService.reconnectAttempts
    startAwaiting,        \* a start() awaits connection.start()
    previousRetryCount,   \* retryContext.previousRetryCount of the reconnect loop
    retryDelay,           \* the delay before the next automatic attempt, 0 when none
    reconnectTimers,      \* pending setTimeout(() => this.start(), this.reconnectDelay)
    joinsOnConnection,    \* JoinStaffGroup invocations sent on the current connection
    stopped,              \* stop() has returned and the caller has not called start() since
    lastCall,             \* the last public call and the connection state it found
    lastInvoke,           \* the hub method last passed to connection.invoke()
    startCaller,          \* who awaits the start() in progress: connect() or the timer
    connectOutcome,       \* how the hook's last settled connect() saw start() end
    hookIsConnected,      \* useStaffSignalR: isConnected
    connectionState       \* useStaffSignalR: connectionState

connVars == <<connState, isConnected, reconnectAttempts, startAwaiting,
              previousRetryCount, retryDelay, reconnectTimers,
              joinsOnConnection, stopped, lastCall, lastInvoke,
              startCaller, connectOutcome, hookIsConnected, connectionState>>

\* the notification hooks (Part 3)
VARIABLES
    notifications,        \* useStaffSignalR: the notification list, newest first
    unreadCount,
    lastNotification,
    received,             \* how many staffNotification events were dispatched
    keeperRegistrations,  \* the earlier useStaffSignalR: keeper registrations
    generalNotifications, \* the earlier useStaffSignalR: general notifications
    keeperSeen,           \* how many keeper registrations were delivered
    generalSeen           \* how many general notifications were delivered

hookVars == <<notifications, unreadCount, lastNotification, received>>
legacyHookVars == <<keeperRegistrations, generalNotifications, keeperSeen, generalSeen>>

\* push messages on their way from the hub to the mounted hooks (Part 4)
VARIABLES
    listeners,            \* the hooks whose staffNotification listener is registered, in order
    arrived,              \* the hub messages received so far, in order of arrival
    eventLog,             \* per hook, the staffNotification events its listener was called with
    badgeLog,             \* per hook, the updateNotificationBadge events it was called with
    hookNotifications,    \* per hook, its notifications list
    handlerErrors,        \* hub callbacks that threw, which the library logs
    failedAt              \* the messages during whose dispatch a listener threw

pushVars == <<listeners, arrived, eventLog, badgeLog, hookNotifications,
              handlerErrors, failedAt>>

\* the stored session and the view the App shows (Part 5)
VARIABLES
    staff_token,          \* localStorage 'staff_token' is set
    staff_user,           \* localStorage 'staff_user': absent, or what it parses to
    user,                 \* App: user, "null" or "staff"
    isLoading,            \* App: isLoading
    users,                \* Dashboard: users, "empty" or "loaded"
    currentPage,          \* Dashboard: currentPage
    lastResponse          \* the HTTP call answered last and its status

sessionVars == <<staff_token, staff_user, user, isLoading, users, currentPage, lastResponse>>

\* request review and user ban (Part 6)
VARIABLES
    serverRequests,       \* the backend's status of each request
    requests,             \* RequestManagement: requests, the status of each
    actionLoading,        \* RequestManagement: actionLoading, 0 stands for null
    requestCalls,         \* handleRequestAction runs awaiting a response
    confirmed,            \* per request, the statuses a 200 response has confirmed
    requestToast,         \* the toast last shown by handleRequestAction
    serverUserStatus,     \* the backend's status of the user
    selectedUser,         \* Dashboard: selectedUser.status
    listedUser,           \* Dashboard: the user's status in users
    isBanning,            \* UserDetails: isBanning
    banConfirmed,         \* banAccount() has resolved
    errorMessage          \* UserDetails: errorMessage of the error modal

reviewVars == <<serverRequests, requests, actionLoading, requestCalls, confirmed,
                requestToast, serverUserStatus, selectedUser, listedUser, isBanning,
                banConfirmed, errorMessage>>

\* remote calls and their timeouts (Part 7)
VARIABLES
    callPending,          \* per endpoint, the flag that disables the action while the call is awaited
    callOutcome           \* per endpoint, how the call last ended for the user

callVars == <<callPending, callOutcome>>

\* the complete-payout request (Part 8)
VARIABLES
    description,          \* PayoutManagement: description, the textarea's characters
    now,                  \* Date.now()
    sentRequest           \* the complete-payout HTTP request sent last

completeVars == <<description, now, sentRequest>>

\* the page navigation (Part 9)
VARIABLES
    pageOfList,           \* Pagination: the currentPage prop
    totalPages,           \* Pagination: the totalPages prop
    pageNumbers           \* the page buttons rendered, generatePageNumbers()

paginationVars == <<pageOfList, totalPages, pageNumbers>>

\* what the actions of each part leave alone
otherThanPayout == <<connVars, hookVars, legacyHookVars, pushVars, sessionVars, reviewVars, callVars, completeVars, paginationVars>>
otherThanConn == <<payoutVars, hookVars, legacyHookVars, pushVars, sessionVars, reviewVars, callVars, completeVars, paginationVars>>
otherThanHook == <<payoutVars, connVars, legacyHookVars, pushVars, sessionVars, reviewVars, callVars, completeVars, paginationVars>>
otherThanLegacyHook == <<payoutVars, connVars, hookVars, pushVars, sessionVars, reviewVars, callVars, completeVars, paginationVars>>
otherThanPush == <<payoutVars, connVars, hookVars, legacyHookVars, sessionVars, reviewVars, callVars, completeVars, paginationVars>>
otherThanSession == <<payoutVars, connVars, hookVars, legacyHookVars, pushVars, reviewVars, callVars, completeVars, paginationVars>>
otherThanReview == <<payoutVars, connVars, hookVars, legacyHookVars, pushVars, sessionVars, callVars, completeVars, paginationVars>>
otherThanCalls == <<payoutVars, connVars, hookVars, legacyHookVars, pushVars, sessionVars, reviewVars, completeVars, paginationVars>>
otherThanComplete == <<payoutVars, connVars, hookVars, legacyHookVars, pushVars, sessionVars, reviewVars, callVars, paginationVars>>
otherThanPagination == <<payoutVars, connVars, hookVars, legacyHookVars, pushVars, sessionVars, reviewVars, callVars, completeVars>>

Mutations == {"start", "upload", "complete"}

\* status and imageUrl of a PayoutRequest; imageUrl is TRUE when the URL is set
PayoutRequest == { [status |-> "NOTPAID", imageUrl |-> FALSE],
                   [status |-> "BUSY",    imageUrl |-> FALSE],
                   [status |-> "BUSY",    imageUrl |-> TRUE],
                   [status |-> "PAID",    imageUrl |-> TRUE] }

NoPayout == 0

NoToast == [title |-> "", message |-> ""]

\* Error.message of a failed remote call
ErrorMessages == {"HTTP error! status: 500"}

StatusRank(s) == CASE s = "NOTPAID" -> 0 [] s = "BUSY" -> 1 [] s = "PAID" -> 2 [] OTHER -> 3

\* which modal blocks are rendered
UploadModalRendered == showUploadModal /\ selectedPayout # NoPayout
CompleteModalRendered == showCompleteModal /\ selectedPayout # NoPayout
DetailsModalRendered == showDetailsModal /\ selectedPayout # NoPayout
\* a rendered modal is a full-screen overlay above the table
ModalOpen == UploadModalRendered \/ CompleteModalRendered \/ DetailsModalRendered

\* which action buttons a table row shows
StartButtonShown(p) == payoutRequests[p].status = "NOTPAID"
\* the button without its disabled attribute
StartButtonEnabled_ignoresPending(p) == StartButtonShown(p)
StartButtonEnabled(p) == StartButtonShown(p) /\ ~isPending["start"]
UploadButtonShown(p) == payoutRequests[p].status = "BUSY" /\ ~payoutRequests[p].imageUrl
CompleteButtonShown(p) == payoutRequests[p].status = "BUSY" /\ payoutRequests[p].imageUrl
ModalUploadEnabled == UploadModalRendered /\ uploadFile /\ ~isPending["upload"]
ModalCompleteEnabled == CompleteModalRendered /\ ~isPending["complete"]

\* useMutation().mutateAsync: the call is sent and the mutation is pending
mutateAsync(m, p) ==
    /\ inflight' = [inflight EXCEPT ![m] = Append(@, p)]
    /\ isPending' = [isPending EXCEPT ![m] = TRUE]

\* the request at position i of mutation m got its response
Settle(m, i) ==
    /\ inflight' = [inflight EXCEPT ![m] =
                      SubSeq(@, 1, i - 1) \o SubSeq(@, i + 1, Len(@))]
    /\ isPending' = [isPending EXCEPT ![m] = IF i = Len(inflight[m]) THEN FALSE ELSE @]

\* the backend accepts a transition only from the state it is defined for
BackendAccepts(m, p) ==
    CASE m = "start"    -> server[p].status = "NOTPAID"
      [] m = "upload"   -> server[p].status = "BUSY" /\ ~server[p].imageUrl
      [] m = "complete" -> server[p].status = "BUSY" /\ server[p].imageUrl

BackendApply(m, p) ==
    CASE m = "start"    -> [server EXCEPT ![p] = [status |-> "BUSY", imageUrl |-> FALSE]]
      [] m = "upload"   -> [server EXCEPT ![p] = [status |-> "BUSY", imageUrl |-> TRUE]]
      [] m = "complete" -> [server EXCEPT ![p] = [status |-> "PAID", imageUrl |-> TRUE]]

PayoutInit ==
    /\ server \in [Payouts -> PayoutRequest]
    /\ payoutRequests = server
    /\ selectedPayout = NoPayout
    /\ showUploadModal = FALSE
    /\ showCompleteModal = FALSE
    /\ showDetailsModal = FALSE
    /\ uploadFile = FALSE
    /\ inflight = [m \in Mutations |-> <<>>]
    /\ isPending = [m \in Mutations |-> FALSE]
    /\ toast = NoToast
    /\ directCalls = 0

----
\* handleStartProcessing with an optimistic update of the list
handleStartProcessing_optimistic(payout, ok) ==
    IF ~ok
    THEN UNCHANGED <<server, payoutRequests, selectedPayout, showUploadModal,
                     showCompleteModal, showDetailsModal, uploadFile,
                     inflight, isPending, toast>>
    ELSE /\ mutateAsync("start", payout)
         /\ payoutRequests' = [payoutRequests EXCEPT ![payout].status = "BUSY"]
         /\ UNCHANGED <<server, selectedPayout, showUploadModal,
                        showCompleteModal, showDetailsModal, uploadFile, toast>>

\* handleStartProcessing(payout); ok is the answer given to confirm().
\* processingPayoutId, which the handler also sets, only feeds the row order
\* of filteredPayouts; the row order is not part of this model.
handleStartProcessing(payout, ok) ==
    IF ~ok
    THEN UNCHANGED <<server, payoutRequests, selectedPayout, showUploadModal,
                     showCompleteModal, showDetailsModal, uploadFile,
                     inflight, isPending, toast>>
    ELSE /\ mutateAsync("start", payout)
         /\ UNCHANGED <<server, payoutRequests, selectedPayout, showUploadModal,
                        showCompleteModal, showDetailsModal, uploadFile, toast>>

\* handleUploadProof()
handleUploadProof ==
    IF ~uploadFile \/ selectedPayout = NoPayout
    THEN /\ toast' = [title |-> "Loi", message |-> "Vui long chon file chung tu"]
         /\ UNCHANGED <<server, payoutRequests, selectedPayout, showUploadModal,
                        showCompleteModal, showDetailsModal, uploadFile,
                        inflight, isPending>>
    ELSE /\ mutateAsync("upload", selectedPayout)
         /\ UNCHANGED <<server, payoutRequests, selectedPayout, showUploadModal,
                        showCompleteModal, showDetailsModal, uploadFile, toast>>

\* handleCompletePayout()
handleCompletePayout ==
    IF selectedPayout = NoPayout
    THEN /\ toast' = [title |-> "Loi", message |-> "Khong tim thay payout request"]
         /\ UNCHANGED <<server, payoutRequests, selectedPayout, showUploadModal,
                        showCompleteModal, showDetailsModal, uploadFile,
                        inflight, isPending>>
    ELSE /\ mutateAsync("complete", selectedPayout)
         /\ UNCHANGED <<server, payoutRequests, selectedPayout, showUploadModal,
                        showCompleteModal, showDetailsModal, uploadFile, toast>>

----
\* table row: the Start Processing button
ClickStartProcessing(p, ok) ==
    /\ ~ModalOpen
    /\ StartButtonEnabled(p)
    /\ handleStartProcessing(p, ok)
    /\ UNCHANGED directCalls
    /\ UNCHANGED otherThanPayout

\* table row: the Upload Proof button
openUploadModal(p) ==
    /\ ~ModalOpen
    /\ UploadButtonShown(p)
    /\ selectedPayout' = p
    /\ showUploadModal' = TRUE
    /\ UNCHANGED <<server, payoutRequests, showCompleteModal, showDetailsModal,
                   uploadFile, inflight,
                   isPending, toast, directCalls>>
    /\ UNCHANGED otherThanPayout

\* table row: the View Details button
viewPayoutDetails(p) ==
    /\ ~ModalOpen
    /\ selectedPayout' = p
    /\ showDetailsModal' = TRUE
    /\ UNCHANGED <<server, payoutRequests, showUploadModal, showCompleteModal,
                   uploadFile, inflight,
                   isPending, toast, directCalls>>
    /\ UNCHANGED otherThanPayout

\* table row: the Complete Payout button
openCompleteModal(p) ==
    /\ ~ModalOpen
    /\ CompleteButtonShown(p)
    /\ selectedPayout' = p
    /\ showCompleteModal' = TRUE
    /\ UNCHANGED <<server, payoutRequests, showUploadModal, showDetailsModal,
                   uploadFile, inflight,
                   isPending, toast, directCalls>>
    /\ UNCHANGED otherThanPayout

\* upload modal: the file input
ChooseFile(f) ==
    /\ UploadModalRendered
    /\ uploadFile' = f
    /\ UNCHANGED <<server, payoutRequests, selectedPayout, showUploadModal,
                   showCompleteModal, showDetailsModal, inflight, isPending, toast, directCalls>>
    /\ UNCHANGED otherThanPayout

\* upload modal: the Upload button
ClickUpload ==
    /\ ModalUploadEnabled
    /\ handleUploadProof
    /\ UNCHANGED directCalls
    /\ UNCHANGED otherThanPayout

\* upload modal: the close and Cancel buttons
CancelUploadModal ==
    /\ UploadModalRendered
    /\ showUploadModal' = FALSE
    /\ uploadFile' = FALSE
    /\ selectedPayout' = NoPayout
    /\ UNCHANGED <<server, payoutRequests, showCompleteModal, showDetailsModal, inflight, isPending, toast, directCalls>>
    /\ UNCHANGED otherThanPayout

\* complete modal: the Complete button
ClickComplete ==
    /\ ModalCompleteEnabled
    /\ handleCompletePayout
    /\ UNCHANGED directCalls
    /\ UNCHANGED otherThanPayout

\* complete modal: the close and Cancel buttons
CancelCompleteModal ==
    /\ CompleteModalRendered
    /\ showCompleteModal' = FALSE
    /\ selectedPayout' = NoPayout
    /\ UNCHANGED <<server, payoutRequests, showUploadModal, showDetailsModal,
                   uploadFile, inflight,
                   isPending, toast, directCalls>>
    /\ UNCHANGED otherThanPayout

\* details modal: the close button
CloseDetailsModal ==
    /\ DetailsModalRendered
    /\ showDetailsModal' = FALSE
    /\ UNCHANGED <<server, payoutRequests, selectedPayout, showUploadModal,
                   showCompleteModal, uploadFile, inflight, isPending, toast, directCalls>>
    /\ UNCHANGED otherThanPayout

----
\* useStartProcessingPayout: the call resolved; the list is refetched later
StartProcessingSucceeded(i) ==
    /\ i \in 1..Len(inflight["start"])
    /\ BackendAccepts("start", inflight["start"][i])
    /\ server' = BackendApply("start", inflight["start"][i])
    /\ Settle("start", i)
    /\ UNCHANGED <<payoutRequests, selectedPayout, showUploadModal,
                   showCompleteModal, showDetailsModal, uploadFile, toast, directCalls>>
    /\ UNCHANGED otherThanPayout

\* useStartProcessingPayout: the call threw; onError shows the message
StartProcessingFailed(i, msg) ==
    /\ i \in 1..Len(inflight["start"])
    /\ Settle("start", i)
    /\ toast' = [title |-> "Loi xu ly payout", message |-> msg]
    /\ UNCHANGED <<server, payoutRequests, selectedPayout, showUploadModal,
                   showCompleteModal, showDetailsModal, uploadFile, directCalls>>
    /\ UNCHANGED otherThanPayout

\* useUploadProof resolved, then the rest of handleUploadProof
UploadProofSucceeded(i) ==
    /\ i \in 1..Len(inflight["upload"])
    /\ BackendAccepts("upload", inflight["upload"][i])
    /\ server' = BackendApply("upload", inflight["upload"][i])
    /\ Settle("upload", i)
    /\ showUploadModal' = FALSE
    /\ uploadFile' = FALSE
    /\ showCompleteModal' = TRUE
    /\ UNCHANGED <<payoutRequests, selectedPayout, showDetailsModal, toast, directCalls>>
    /\ UNCHANGED otherThanPayout

\* useUploadProof threw; onError shows the message
UploadProofFailed(i, msg) ==
    /\ i \in 1..Len(inflight["upload"])
    /\ Settle("upload", i)
    /\ toast' = [title |-> "Loi upload chung tu", message |-> msg]
    /\ UNCHANGED <<server, payoutRequests, selectedPayout, showUploadModal,
                   showCompleteModal, showDetailsModal, uploadFile, directCalls>>
    /\ UNCHANGED otherThanPayout

\* useCompletePayout resolved, then the rest of handleCompletePayout
CompletePayoutSucceeded(i) ==
    /\ i \in 1..Len(inflight["complete"])
    /\ BackendAccepts("complete", inflight["complete"][i])
    /\ server' = BackendApply("complete", inflight["complete"][i])
    /\ Settle("complete", i)
    /\ showCompleteModal' = FALSE
    /\ selectedPayout' = NoPayout
    /\ toast' = [title |-> "Thanh cong", message |-> "Payout da duoc hoan thanh"]
    /\ UNCHANGED <<payoutRequests, showUploadModal, showDetailsModal,
                   uploadFile, directCalls>>
    /\ UNCHANGED otherThanPayout

\* useCompletePayout threw; onError shows the message
CompletePayoutFailed(i, msg) ==
    /\ i \in 1..Len(inflight["complete"])
    /\ Settle("complete", i)
    /\ toast' = [title |-> "Loi hoan thanh payout", message |-> msg]
    /\ UNCHANGED <<server, payoutRequests, selectedPayout, showUploadModal,
                   showCompleteModal, showDetailsModal, uploadFile, directCalls>>
    /\ UNCHANGED otherThanPayout

\* useStaffPayoutRequests: the list query refetches (invalidation, 30 s interval)
Refetch ==
    /\ payoutRequests' = server
    /\ UNCHANGED <<server, selectedPayout, showUploadModal, showCompleteModal,
                   showDetailsModal, uploadFile, inflight, isPending, toast, directCalls>>
    /\ UNCHANGED otherThanPayout

----
\* the handlers called directly, past the buttons that guard them
DirectStartProcessing(p, ok) ==
    /\ directCalls < MaxDirectCalls
    /\ directCalls' = directCalls + 1
    /\ handleStartProcessing(p, ok)
    /\ UNCHANGED otherThanPayout

DirectUploadProof ==
    /\ directCalls < MaxDirectCalls
    /\ directCalls' = directCalls + 1
    /\ handleUploadProof
    /\ UNCHANGED otherThanPayout

DirectCompletePayout ==
    /\ directCalls < MaxDirectCalls
    /\ directCalls' = directCalls + 1
    /\ handleCompletePayout
    /\ UNCHANGED otherThanPayout

PayoutNext ==
    \/ \E p \in Payouts, ok \in BOOLEAN : ClickStartProcessing(p, ok)
    \/ \E p \in Payouts : openUploadModal(p)
    \/ \E p \in Payouts : viewPayoutDetails(p)
    \/ \E p \in Payouts : openCompleteModal(p)
    \/ \E f \in BOOLEAN : ChooseFile(f)
    \/ ClickUpload
    \/ CancelUploadModal
    \/ ClickComplete
    \/ CancelCompleteModal
    \/ CloseDetailsModal
    \/ \E i \in 1..MaxInFlight : StartProcessingSucceeded(i)
    \/ \E i \in 1..MaxInFlight, msg \in ErrorMessages : StartProcessingFailed(i, msg)
    \/ \E i \in 1..MaxInFlight : UploadProofSucceeded(i)
    \/ \E i \in 1..MaxInFlight, msg \in ErrorMessages : UploadProofFailed(i, msg)
    \/ \E i \in 1..MaxInFlight : CompletePayoutSucceeded(i)
    \/ \E i \in 1..MaxInFlight, msg \in ErrorMessages : CompletePayoutFailed(i, msg)
    \/ Refetch

PayoutDirectNext ==
    \/ \E p \in Payouts, ok \in BOOLEAN : DirectStartProcessing(p, ok)
    \/ DirectUploadProof
    \/ DirectCompletePayout

(***************************************************************************)
(* Part 2: the push-notification client, StaffSignalRService, over the     *)
(* HubConnection of the SignalR client library.                            *)
(***************************************************************************)
maxReconnectAttempts == 5

\* the most failed automatic attempts the model follows
MaxRetryCount == 7
\* the most manual reconnect timers pending at once
MaxReconnectTimers == 2

Min(a, b) == IF a < b THEN a ELSE b

\* withAutomaticReconnect: nextRetryDelayInMilliseconds(retryContext);
\* the library stops retrying when the policy returns null, here -1
delays == <<2000, 5000, 10000, 20000, 30000>>
nextRetryDelayInMilliseconds(retryCount) ==
    delays[Min(retryCount, Len(delays) - 1) + 1]

\* joinStaffGroup with its guard inverted
joinStaffGroup_guardInverted(connected, sent) ==
    IF connected THEN sent ELSE sent + 1

\* joinStaffGroup(): the number of JoinStaffGroup invocations after the call
joinStaffGroup(connected, sent) ==
    IF ~connected THEN sent ELSE sent + 1

ConnInit ==
    /\ connState = "Disconnected"
    /\ isConnected = FALSE
    /\ reconnectAttempts = 0
    /\ startAwaiting = FALSE
    /\ previousRetryCount = 0
    /\ retryDelay = 0
    /\ reconnectTimers = 0
    /\ joinsOnConnection = 0
    /\ stopped = FALSE
    /\ lastCall = <<"none", "Disconnected">>
    /\ lastInvoke = "none"
    /\ startCaller = "none"
    /\ connectOutcome = "none"
    /\ hookIsConnected = FALSE
    /\ connectionState = "Disconnected"

\* isConnectionActive()
isConnectionActive == isConnected /\ connState = "Connected"

\* useStaffSignalR.connect(): after the await of start()
connect_resolved ==
    /\ hookIsConnected' = TRUE
    /\ connectionState' = "Connected"
    /\ connectOutcome' = "resolved"

\* connect() with an empty catch block
connect_catchIgnored ==
    /\ UNCHANGED <<hookIsConnected, connectionState>>
    /\ connectOutcome' = "rejected"

\* useStaffSignalR.connect(): the catch block
connect_catch ==
    /\ hookIsConnected' = FALSE
    /\ connectionState' = "Disconnected"
    /\ connectOutcome' = "rejected"

hookConnVars == <<connectOutcome, hookIsConnected, connectionState>>

\* connection.onclose handler: schedules a manual reconnect
onclose ==
    /\ isConnected' = FALSE
    /\ IF reconnectAttempts < maxReconnectAttempts
       THEN /\ reconnectAttempts' = reconnectAttempts + 1
            /\ reconnectTimers' = reconnectTimers + 1
       ELSE UNCHANGED <<reconnectAttempts, reconnectTimers>>

\* start() without the check of connection.state: connection.start()
\* rejects on a connection that is not Disconnected and the catch block runs
start_unguarded ==
    IF connState = "Disconnected"
    THEN /\ connState' = "Connecting"
         /\ startAwaiting' = TRUE
         /\ UNCHANGED <<isConnected, reconnectAttempts, previousRetryCount,
                        retryDelay, joinsOnConnection>>
    ELSE /\ isConnected' = FALSE
         /\ UNCHANGED <<connState, startAwaiting, reconnectAttempts,
                        previousRetryCount, retryDelay, joinsOnConnection>>

\* start(), up to its await of connection.start()
start ==
    IF connState = "Disconnected"
    THEN /\ connState' = "Connecting"
         /\ startAwaiting' = TRUE
         /\ UNCHANGED <<isConnected, reconnectAttempts, previousRetryCount,
                        retryDelay, joinsOnConnection>>
    ELSE UNCHANGED <<connState, startAwaiting, isConnected, reconnectAttempts,
                     previousRetryCount, retryDelay, joinsOnConnection>>

\* useStaffSignalR.connect() calls start(); on a connection that is not
\* Disconnected start() returns at once and connect() goes on
CallStart ==
    /\ start
    /\ stopped' = FALSE
    /\ lastCall' = <<"start", connState>>
    /\ IF connState = "Disconnected"
       THEN startCaller' = "connect" /\ UNCHANGED hookConnVars
       ELSE connect_resolved /\ UNCHANGED startCaller
    /\ UNCHANGED <<reconnectTimers, lastInvoke>>
    /\ UNCHANGED otherThanConn

\* the timer set by the onclose handler calls start()
ReconnectTimerFires ==
    /\ reconnectTimers > 0
    /\ reconnectTimers' = reconnectTimers - 1
    /\ start
    /\ startCaller' = IF connState = "Disconnected" THEN "timer" ELSE startCaller
    /\ UNCHANGED <<stopped, lastCall, lastInvoke>>
    /\ UNCHANGED hookConnVars
    /\ UNCHANGED otherThanConn

\* the rest of start() without the reset of reconnectAttempts
StartSucceeded_keepsAttempts ==
    /\ startAwaiting
    /\ connState = "Connecting"
    /\ connState' = "Connected"
    /\ startAwaiting' = FALSE
    /\ isConnected' = TRUE
    /\ joinsOnConnection' = joinStaffGroup(TRUE, 0)
    /\ lastInvoke' = "JoinStaffGroup"
    /\ startCaller' = "none"
    /\ IF startCaller = "connect" THEN connect_resolved ELSE UNCHANGED hookConnVars
    /\ UNCHANGED <<reconnectAttempts, previousRetryCount, retryDelay, reconnectTimers,
                   stopped, lastCall>>
    /\ UNCHANGED otherThanConn

\* connection.start() resolved, then the rest of start()
StartSucceeded ==
    /\ startAwaiting
    /\ connState = "Connecting"
    /\ connState' = "Connected"
    /\ startAwaiting' = FALSE
    /\ isConnected' = TRUE
    /\ reconnectAttempts' = 0
    /\ joinsOnConnection' = joinStaffGroup(TRUE, 0)
    /\ lastInvoke' = "JoinStaffGroup"
    /\ startCaller' = "none"
    /\ IF startCaller = "connect" THEN connect_resolved ELSE UNCHANGED hookConnVars
    /\ UNCHANGED <<previousRetryCount, retryDelay, reconnectTimers, stopped, lastCall>>
    /\ UNCHANGED otherThanConn

\* connection.start() rejected, then the catch block of start()
StartFailed ==
    /\ startAwaiting
    /\ connState = "Connecting"
    /\ connState' = "Disconnected"
    /\ startAwaiting' = FALSE
    /\ isConnected' = FALSE
    /\ startCaller' = "none"
    /\ IF startCaller = "connect" THEN connect_catch ELSE UNCHANGED hookConnVars
    /\ UNCHANGED <<reconnectAttempts, previousRetryCount, retryDelay,
                   reconnectTimers, joinsOnConnection, stopped, lastCall, lastInvoke>>
    /\ UNCHANGED otherThanConn

\* the transport dropped: the library enters its reconnect loop and calls
\* the onreconnecting handler
ConnectionLost ==
    /\ connState = "Connected"
    /\ connState' = "Reconnecting"
    /\ isConnected' = FALSE
    /\ previousRetryCount' = 0
    /\ retryDelay' = nextRetryDelayInMilliseconds(0)
    /\ joinsOnConnection' = 0
    /\ UNCHANGED <<reconnectAttempts, startAwaiting, reconnectTimers, stopped, lastCall,
                   lastInvoke, startCaller>>
    /\ UNCHANGED hookConnVars
    /\ UNCHANGED otherThanConn

\* an automatic attempt failed: the policy is asked for the next delay and
\* the connection closes when it answers null
ReconnectAttemptFailed ==
    /\ connState = "Reconnecting"
    /\ previousRetryCount < MaxRetryCount
    /\ previousRetryCount' = previousRetryCount + 1
    /\ IF nextRetryDelayInMilliseconds(previousRetryCount + 1) = -1
       THEN /\ reconnectTimers < MaxReconnectTimers
            /\ connState' = "Disconnected"
            /\ retryDelay' = 0
            /\ onclose
       ELSE /\ retryDelay' = nextRetryDelayInMilliseconds(previousRetryCount + 1)
            /\ UNCHANGED <<connState, isConnected, reconnectAttempts, reconnectTimers>>
    /\ UNCHANGED <<startAwaiting, joinsOnConnection, stopped, lastCall,
                   lastInvoke, startCaller>>
    /\ UNCHANGED hookConnVars
    /\ UNCHANGED otherThanConn

\* an automatic attempt succeeded: the onreconnected handler
ReconnectAttemptSucceeded ==
    /\ connState = "Reconnecting"
    /\ connState' = "Connected"
    /\ isConnected' = TRUE
    /\ reconnectAttempts' = 0
    /\ joinsOnConnection' = joinStaffGroup(TRUE, 0)
    /\ previousRetryCount' = 0
    /\ retryDelay' = 0
    /\ lastInvoke' = "JoinStaffGroup"
    /\ UNCHANGED <<startAwaiting, reconnectTimers, stopped, lastCall, startCaller>>
    /\ UNCHANGED hookConnVars
    /\ UNCHANGED otherThanConn

\* the server closed the connection without allowing a reconnect
ClosedByServer ==
    /\ connState = "Connected"
    /\ reconnectTimers < MaxReconnectTimers
    /\ connState' = "Disconnected"
    /\ joinsOnConnection' = 0
    /\ onclose
    /\ UNCHANGED <<startAwaiting, previousRetryCount, retryDelay, stopped, lastCall,
                   lastInvoke, startCaller>>
    /\ UNCHANGED hookConnVars
    /\ UNCHANGED otherThanConn

\* stop(): connection.stop() closes an open connection, which calls the
\* onclose handler, and has nothing to do on a closed one; a start() still
\* awaiting connection.start() is rejected
stop ==
    /\ reconnectTimers < MaxReconnectTimers
    /\ connState' = "Disconnected"
    /\ startAwaiting' = FALSE
    /\ previousRetryCount' = 0
    /\ retryDelay' = 0
    /\ joinsOnConnection' = 0
    /\ IF connState \in {"Connected", "Reconnecting"}
       THEN onclose
       ELSE /\ isConnected' = FALSE
            /\ UNCHANGED <<reconnectAttempts, reconnectTimers>>
    /\ stopped' = TRUE
    /\ lastCall' = <<"stop", connState>>
    /\ startCaller' = "none"
    /\ IF startAwaiting /\ startCaller = "connect"
       THEN connect_catch
       ELSE UNCHANGED hookConnVars
    /\ UNCHANGED lastInvoke
    /\ UNCHANGED otherThanConn

\* useStaffSignalR: the 5 s interval that copies the service's state
PollConnectionState ==
    /\ connectionState' = connState
    /\ hookIsConnected' = isConnectionActive
    /\ UNCHANGED <<connState, isConnected, reconnectAttempts, startAwaiting,
                   previousRetryCount, retryDelay, reconnectTimers, joinsOnConnection,
                   stopped, lastCall, lastInvoke, startCaller, connectOutcome>>
    /\ UNCHANGED otherThanConn

ConnNext ==
    \/ CallStart
    \/ ReconnectTimerFires
    \/ StartSucceeded
    \/ StartFailed
    \/ ConnectionLost
    \/ ReconnectAttemptFailed
    \/ ReconnectAttemptSucceeded
    \/ ClosedByServer
    \/ stop
    \/ PollConnectionState

(***************************************************************************)
(* Part 3: the notification hooks.                                         *)
(***************************************************************************)
\* slice(0, 50): the number of notifications kept
MaxNotifications == 50
\* the most push messages the model delivers
MaxPushes == 52
\* null objects are pushed among the first events only
NullPushesUpTo == 2

NotificationTypes == {"KEEPER_REGISTRATION_REQUEST", "CREATE_STORAGE_REQUEST",
                      "DELETE_STORAGE_REQUEST", "PAYOUT_REQUEST", "GENERIC"}

NoNotification == [type |-> "", message |-> "", data |-> 0]

\* [x, ...prev]
Prepend(x, prev) == <<x>> \o prev
\* prev.slice(0, n)
Slice(prev, n) == SubSeq(prev, 1, Min(n, Len(prev)))

HookInit ==
    /\ notifications = <<>>
    /\ unreadCount = 0
    /\ lastNotification = NoNotification
    /\ received = 0

LegacyHookInit ==
    /\ keeperRegistrations = <<>>
    /\ generalNotifications = <<>>
    /\ keeperSeen = 0
    /\ generalSeen = 0

\* useStaffSignalR.handleStaffNotification(event); Message is "" when the
\* pushed object has neither Message nor message, data is the pushed object
handleStaffNotification(type, Message, data) ==
    LET newNotification ==
            [type |-> type,
             message |-> IF Message # "" THEN Message ELSE "New notification",
             data |-> data]
    IN  /\ notifications' = Slice(Prepend(newNotification, notifications), MaxNotifications)
        /\ unreadCount' = unreadCount + 1
        /\ lastNotification' = newNotification

\* the service dispatches a staffNotification event for a push message
StaffNotificationEvent(type, Message) ==
    /\ received < MaxPushes
    /\ received' = received + 1
    /\ handleStaffNotification(type, Message, received + 1)
    /\ UNCHANGED otherThanHook

\* the service dispatches the staffNotification event of a StaffNotification
\* push whose object is null: handleStaffNotification throws on
\* notification.Message before any of its state updates
NullNotificationEvent ==
    /\ received < NullPushesUpTo
    /\ received' = received + 1
    /\ UNCHANGED <<notifications, unreadCount, lastNotification>>
    /\ UNCHANGED otherThanHook

markAsRead ==
    /\ unreadCount' = 0
    /\ UNCHANGED <<notifications, lastNotification, received>>
    /\ UNCHANGED otherThanHook

clearNotifications ==
    /\ notifications' = <<>>
    /\ unreadCount' = 0
    /\ lastNotification' = NoNotification
    /\ UNCHANGED received
    /\ UNCHANGED otherThanHook

\* the push messages delivered when the list is driven to its limit
CapTypes == {"PAYOUT_REQUEST"}
CapMessages == {""}

HookNext ==
    \/ \E type \in CapTypes, Message \in CapMessages : StaffNotificationEvent(type, Message)
    \/ NullNotificationEvent
    \/ markAsRead
    \/ clearNotifications

\* the earlier useStaffSignalR hook: handleKeeperRegistration(notification)
handleKeeperRegistration(notification) ==
    keeperRegistrations' = Prepend(notification, keeperRegistrations)

\* the earlier useStaffSignalR hook: handleGeneralNotification(notification)
handleGeneralNotification(notification) ==
    generalNotifications' = Prepend(notification, generalNotifications)

\* a keeper registration is delivered to the subscribed handler
KeeperRegistrationDelivered ==
    /\ keeperSeen + generalSeen < MaxPushes
    /\ keeperSeen' = keeperSeen + 1
    /\ handleKeeperRegistration(keeperSeen + 1)
    /\ UNCHANGED <<generalNotifications, generalSeen>>
    /\ UNCHANGED otherThanLegacyHook

\* a general notification is delivered to the subscribed handler
GeneralNotificationDelivered ==
    /\ keeperSeen + generalSeen < MaxPushes
    /\ generalSeen' = generalSeen + 1
    /\ handleGeneralNotification(generalSeen + 1)
    /\ UNCHANGED <<keeperRegistrations, keeperSeen>>
    /\ UNCHANGED otherThanLegacyHook

clearKeeperRegistrations ==
    /\ keeperRegistrations' = <<>>
    /\ UNCHANGED <<generalNotifications, keeperSeen, generalSeen>>
    /\ UNCHANGED otherThanLegacyHook

clearGeneralNotifications ==
    /\ generalNotifications' = <<>>
    /\ UNCHANGED <<keeperRegistrations, keeperSeen, generalSeen>>
    /\ UNCHANGED otherThanLegacyHook

LegacyHookNext ==
    \/ KeeperRegistrationDelivered
    \/ GeneralNotificationDelivered
    \/ clearKeeperRegistrations
    \/ clearGeneralNotifications

(***************************************************************************)
(* Part 4: a hub message goes through the service's handler, which          *)
(* dispatches window events to the listeners of the mounted hooks.         *)
(***************************************************************************)
\* the most hooks mounted at once
NumHooks == 2
\* the most hub messages the model delivers
MaxMessages == 2

Hooks == 1..NumHooks

\* connection.on(method, ...)
HubMethods == {"KeeperRegistrationRequest", "CreateStorageRequest",
               "DeleteStorageRequest", "ReceivePayoutRequest", "StaffNotification"}

\* the object pushed with a hub message: null, or an object whose optional
\* fields may be missing (<<>> for a missing Message, "undefined" for a
\* missing Amount)
NullPayload == [isNull |-> TRUE, Message |-> <<>>, Amount |-> "undefined"]
EmptyPayload == [isNull |-> FALSE, Message |-> <<>>, Amount |-> "undefined"]
Payloads == { NullPayload,
              EmptyPayload,
              [EmptyPayload EXCEPT !.Message = <<"You have a new request">>],
              [EmptyPayload EXCEPT !.Amount = "500000"] }

\* detail.type of the staffNotification event each handler dispatches
DetailType(method) ==
    CASE method = "KeeperRegistrationRequest" -> "KEEPER_REGISTRATION_REQUEST"
      [] method = "CreateStorageRequest" -> "CREATE_STORAGE_REQUEST"
      [] method = "DeleteStorageRequest" -> "DELETE_STORAGE_REQUEST"
      [] method = "ReceivePayoutRequest" -> "PAYOUT_REQUEST"
      [] method = "StaffNotification" -> "GENERIC"

\* the handler reads a property of the pushed object before it dispatches,
\* which throws a TypeError on null; handleGenericNotification reads none
ServiceHandlerThrows(method, payload) ==
    payload.isNull /\ method # "StaffNotification"

\* updateNotificationBadge() is called by every handler but handleGenericNotification
UpdatesBadge(method) == method # "StaffNotification"

\* newNotification of handleStaffNotification, message as the pieces of its text
NewNotification(type, payload, n) ==
    [type |-> type,
     message |-> IF payload.Message # <<>> THEN payload.Message ELSE <<"New notification">>,
     data |-> n]

Range(seq) == { seq[i] : i \in 1..Len(seq) }

\* the position of hook h in the listener list, 0 when it is not registered
Position(ls, h) == IF h \in Range(ls) THEN CHOOSE i \in 1..Len(ls) : ls[i] = h ELSE 0

\* a dispatch that ends at the first listener that throws
dispatchEvent_stopsAtThrow(log, ls, throwers, ev) ==
    [h \in Hooks |->
        IF /\ h \in Range(ls)
           /\ \A t \in throwers : Position(ls, t) >= Position(ls, h)
        THEN Append(log[h], ev)
        ELSE log[h]]

\* window.dispatchEvent(ev): every registered listener is called, in the
\* order of registration; what a listener throws is reported, not propagated
dispatchEvent(log, ls, throwers, ev) ==
    [h \in Hooks |-> IF h \in Range(ls) THEN Append(log[h], ev) ELSE log[h]]

PushInit ==
    /\ listeners = <<>>
    /\ arrived = <<>>
    /\ eventLog = [h \in Hooks |-> <<>>]
    /\ badgeLog = [h \in Hooks |-> <<>>]
    /\ hookNotifications = [h \in Hooks |-> <<>>]
    /\ handlerErrors = 0
    /\ failedAt = {}

\* a component using useStaffSignalR mounts: its effect registers the listeners
MountHook(h) ==
    /\ h \notin Range(listeners)
    /\ listeners' = Append(listeners, h)
    /\ UNCHANGED <<arrived, eventLog, badgeLog, hookNotifications,
                   handlerErrors, failedAt>>
    /\ UNCHANGED otherThanPush

\* the component unmounts: the cleanup removes the listeners
UnmountHook(h) ==
    /\ h \in Range(listeners)
    /\ listeners' = SelectSeq(listeners, LAMBDA x : x # h)
    /\ UNCHANGED <<arrived, eventLog, badgeLog, hookNotifications,
                   handlerErrors, failedAt>>
    /\ UNCHANGED otherThanPush

\* a hub message arrives: the callback registered with connection.on runs
\* the service's handler, and the hooks' listeners run inside its dispatch.
\* thrower is a hook whose listener throws after its state updates (in
\* showNotification), 0 when there is none; on a null object every listener
\* throws before its state updates.
HubMessage(method, payload, thrower) ==
    LET n == Len(arrived) + 1
        ev == [n |-> n, type |-> DetailType(method)]
        throwers == IF payload.isNull THEN Range(listeners)
                    ELSE {thrower} \cap Range(listeners)
    IN  /\ Len(arrived) < MaxMessages
        /\ arrived' = Append(arrived, [method |-> method, payload |-> payload,
                                       subscribers |-> Range(listeners)])
        /\ IF ServiceHandlerThrows(method, payload)
           THEN /\ handlerErrors' = handlerErrors + 1
                /\ UNCHANGED <<eventLog, badgeLog, hookNotifications, failedAt>>
           ELSE /\ eventLog' = dispatchEvent(eventLog, listeners, throwers, ev)
                /\ hookNotifications' =
                       [h \in Hooks |->
                           IF h \in Range(listeners) /\ ~payload.isNull
                           THEN Slice(Prepend(NewNotification(ev.type, payload, n),
                                              hookNotifications[h]), MaxNotifications)
                           ELSE hookNotifications[h]]
                /\ failedAt' = IF throwers # {} THEN failedAt \cup {n} ELSE failedAt
                /\ badgeLog' = IF UpdatesBadge(method)
                               THEN dispatchEvent(badgeLog, listeners, {}, n)
                               ELSE badgeLog
                /\ UNCHANGED handlerErrors
        /\ UNCHANGED listeners
        /\ UNCHANGED otherThanPush

PushNext ==
    \/ \E h \in Hooks : MountHook(h)
    \/ \E h \in Hooks : UnmountHook(h)
    \/ \E method \in HubMethods, payload \in Payloads, thrower \in Hooks \cup {0} :
           HubMessage(method, payload, thrower)

(***************************************************************************)
(* Part 5: the stored session, startup, logout and HTTP 401.               *)
(***************************************************************************)
\* the HTTP calls of the dashboard and the client each is made with
HttpCalls == { [endpoint |-> "user/get-all", client |-> "fetch"],
               [endpoint |-> "user/get-detail", client |-> "fetch"],
               [endpoint |-> "payout/requests", client |-> "fetch"],
               [endpoint |-> "order/all", client |-> "fetch"],
               [endpoint |-> "request", client |-> "fetch"],
               [endpoint |-> "request", client |-> "apiClient"] }

\* the page of the dashboard each call is made from
PageOf(endpoint) ==
    CASE endpoint = "user/get-all" -> "list-user"
      [] endpoint = "user/get-detail" -> "list-user"
      [] endpoint = "payout/requests" -> "payout-request"
      [] endpoint = "order/all" -> "order"
      [] endpoint = "request" -> "request-management"

Pages == {"dashboard", "list-user", "request-management", "order", "payout-request"}

NoResponse == [endpoint |-> "", client |-> "", status |-> "none"]

\* what localStorage 'staff_user' can hold: nothing, a staff profile, a
\* profile without the STAFF or ADMIN role, text JSON.parse rejects
StoredProfiles == {"absent", "staff", "noaccess", "unparseable"}

SessionInit ==
    /\ staff_token \in BOOLEAN
    /\ staff_user \in StoredProfiles
    /\ user = "null"
    /\ isLoading = TRUE
    /\ users = "empty"
    /\ currentPage = "dashboard"
    /\ lastResponse = NoResponse

\* localStorage.removeItem('staff_token'); localStorage.removeItem('staff_user')
clearSession ==
    /\ staff_token' = FALSE
    /\ staff_user' = "absent"

\* App: initializeAuth(), run once when the page loads
initializeAuth ==
    /\ isLoading
    /\ isLoading' = FALSE
    /\ IF staff_token /\ staff_user # "absent"
       THEN CASE staff_user = "unparseable" -> clearSession /\ UNCHANGED user
              [] staff_user = "noaccess" -> clearSession /\ UNCHANGED user
              [] staff_user = "staff" -> user' = "staff" /\ UNCHANGED <<staff_token, staff_user>>
       ELSE UNCHANGED <<staff_token, staff_user, user>>
    /\ UNCHANGED <<users, currentPage, lastResponse>>
    /\ UNCHANGED otherThanSession

\* App: handleLogin(userData, token) after a successful login; the
\* Dashboard mounts on its first page
handleLogin ==
    /\ ~isLoading
    /\ user = "null"
    /\ staff_token' = TRUE
    /\ staff_user' = "staff"
    /\ user' = "staff"
    /\ currentPage' = "dashboard"
    /\ users' = "empty"
    /\ UNCHANGED <<isLoading, lastResponse>>
    /\ UNCHANGED otherThanSession

\* Login: onSubmit() for an account without the STAFF or ADMIN role: the
\* backend accepts the password, authAPI.login() throws on the roles, and
\* the catch block shows the message; nothing is stored
LoginDenied ==
    /\ ~isLoading
    /\ user = "null"
    /\ lastResponse' = [endpoint |-> "auth/login", client |-> "fetch", status |-> "200"]
    /\ UNCHANGED <<staff_token, staff_user, user, isLoading, users, currentPage>>
    /\ UNCHANGED otherThanSession

\* App: handleLogout(), with authAPI.logout()
AppHandleLogout ==
    /\ user = "staff"
    /\ clearSession
    /\ user' = "null"
    /\ UNCHANGED <<isLoading, users, currentPage, lastResponse>>
    /\ UNCHANGED otherThanSession

\* Dashboard: handleLogout(), the handler of its logout button, confirmed
DashboardHandleLogout ==
    /\ user = "staff"
    /\ staff_token' = FALSE
    /\ users' = "empty"
    /\ currentPage' = "dashboard"
    /\ UNCHANGED <<staff_user, user, isLoading, lastResponse>>
    /\ UNCHANGED otherThanSession

\* the page is loaded again: the App starts over from what is stored
ReloadPage ==
    /\ ~isLoading
    /\ isLoading' = TRUE
    /\ user' = "null"
    /\ users' = "empty"
    /\ currentPage' = "dashboard"
    /\ UNCHANGED <<staff_token, staff_user, lastResponse>>
    /\ UNCHANGED otherThanSession

\* Dashboard: handleMenuClick
handleMenuClick(page) ==
    /\ user = "staff"
    /\ currentPage' = page
    /\ UNCHANGED <<staff_token, staff_user, user, isLoading, users, lastResponse>>
    /\ UNCHANGED otherThanSession

\* a call is answered 200; loadUsers() stores the list
Answered(call) ==
    /\ user = "staff"
    /\ staff_token
    /\ currentPage = PageOf(call.endpoint)
    /\ lastResponse' = [endpoint |-> call.endpoint, client |-> call.client, status |-> "200"]
    /\ users' = IF call.endpoint = "user/get-all" THEN "loaded" ELSE users
    /\ UNCHANGED <<staff_token, staff_user, user, isLoading, currentPage>>
    /\ UNCHANGED otherThanSession

\* a call is answered 401: the response interceptor of apiClient clears the
\* session and reloads the page; a fetch call throws an Error to its caller,
\* and loadUsers() empties the list
Unauthorized(call) ==
    /\ user = "staff"
    /\ staff_token
    /\ currentPage = PageOf(call.endpoint)
    /\ lastResponse' = [endpoint |-> call.endpoint, client |-> call.client, status |-> "401"]
    /\ IF call.client = "apiClient"
       THEN /\ clearSession
            /\ user' = "null"
            /\ isLoading' = TRUE
            /\ users' = "empty"
            /\ currentPage' = "dashboard"
       ELSE /\ users' = IF call.endpoint = "user/get-all" THEN "empty" ELSE users
            /\ UNCHANGED <<staff_token, staff_user, user, isLoading, currentPage>>
    /\ UNCHANGED otherThanSession

SessionNext ==
    \/ LoginDenied
    \/ initializeAuth
    \/ handleLogin
    \/ AppHandleLogout
    \/ DashboardHandleLogout
    \/ ReloadPage
    \/ \E page \in Pages : handleMenuClick(page)
    \/ \E call \in HttpCalls : Answered(call)
    \/ \E call \in HttpCalls : Unauthorized(call)

(***************************************************************************)
(* Part 6: request review (RequestManagement) and user ban (UserDetails).  *)
(***************************************************************************)
\* the requests listed
NumRequests == 2
\* the runs of handleRequestAction awaiting a response at one time
MaxRunsInFlight == 2

Requests == 1..NumRequests

RequestTypes == {"KEEPER_REGISTRATION", "CREATE_STORAGE"}

\* request r is a keeper registration, the others are storage requests
TypeOf(r) == IF r = 1 THEN "KEEPER_REGISTRATION" ELSE "CREATE_STORAGE"

\* how a remote call can end: the HTTP status is an error (the client
\* throws), or the response carries its own statusCode
Outcomes == {"throws", "200", "400"}

ReviewInit ==
    /\ serverRequests = [r \in Requests |-> "PENDING"]
    /\ requests = serverRequests
    /\ actionLoading = 0
    /\ requestCalls = {}
    /\ confirmed = [r \in Requests |-> {}]
    /\ requestToast = ""
    /\ serverUserStatus \in {"ACTIVE", "INACTIVE", "BANNED"}
    /\ selectedUser = serverUserStatus
    /\ listedUser = serverUserStatus
    /\ isBanning = FALSE
    /\ banConfirmed = FALSE
    /\ errorMessage = ""

\* the Approve and Reject buttons of the row are shown and enabled
ActionButtonsEnabled(requestId) ==
    /\ requests[requestId] = "PENDING"
    /\ actionLoading # requestId

\* the runs of handleRequestAction for the request that await a response
RunsOf(requestId) == { c \in requestCalls : c.id = requestId }

\* handleRequestAction(requestId, approve), up to its await of
\* requestAPI.changeRequestStatus
handleRequestAction(requestId, approve) ==
    /\ Cardinality(requestCalls) < MaxRunsInFlight
    /\ actionLoading' = requestId
    /\ requestCalls' = requestCalls \cup
           {[id |-> requestId, approve |-> approve, phase |-> "changeStatus",
             run |-> CHOOSE n \in 1..MaxRunsInFlight :
                         \A c \in RunsOf(requestId) : c.run # n]}
    /\ UNCHANGED <<serverRequests, requests, confirmed, requestToast>>

\* the rest of handleRequestAction with the statusCode check left out
afterChangeStatus_unchecked(c, statusCode) ==
    IF c.approve /\ TypeOf(c.id) = "KEEPER_REGISTRATION"
    THEN /\ requestCalls' = (requestCalls \ {c}) \cup {[c EXCEPT !.phase = "registerKeeper"]}
         /\ UNCHANGED <<requests, requestToast, actionLoading>>
    ELSE /\ requestCalls' = requestCalls \ {c}
         /\ requestToast' = "success"
         /\ requests' = [requests EXCEPT ![c.id] = IF c.approve THEN "APPROVED" ELSE "REJECTED"]
         /\ actionLoading' = 0

\* the rest of handleRequestAction registering a keeper for every approval
afterChangeStatus_anyType(c, statusCode) ==
    IF statusCode = "200"
    THEN IF c.approve
         THEN /\ requestCalls' = (requestCalls \ {c}) \cup {[c EXCEPT !.phase = "registerKeeper"]}
              /\ UNCHANGED <<requests, requestToast, actionLoading>>
         ELSE /\ requestCalls' = requestCalls \ {c}
              /\ requestToast' = "success"
              /\ requests' = [requests EXCEPT ![c.id] = "REJECTED"]
              /\ actionLoading' = 0
    ELSE /\ requestCalls' = requestCalls \ {c}
         /\ actionLoading' = 0
         /\ UNCHANGED <<requests, requestToast>>

\* handleRequestAction after changeRequestStatus resolved with statusCode:
\* on 200 it registers the keeper or updates the list, else only the
\* finally block runs
afterChangeStatus(c, statusCode) ==
    IF statusCode = "200"
    THEN IF c.approve /\ TypeOf(c.id) = "KEEPER_REGISTRATION"
         THEN /\ requestCalls' = (requestCalls \ {c}) \cup {[c EXCEPT !.phase = "registerKeeper"]}
              /\ UNCHANGED <<requests, requestToast, actionLoading>>
         ELSE /\ requestCalls' = requestCalls \ {c}
              /\ requestToast' = "success"
              /\ requests' = [requests EXCEPT ![c.id] = IF c.approve THEN "APPROVED" ELSE "REJECTED"]
              /\ actionLoading' = 0
    ELSE /\ requestCalls' = requestCalls \ {c}
         /\ actionLoading' = 0
         /\ UNCHANGED <<requests, requestToast>>

\* the user presses Approve or Reject on a pending request
ClickRequestAction(requestId, approve) ==
    /\ ActionButtonsEnabled(requestId)
    /\ handleRequestAction(requestId, approve)
    /\ UNCHANGED <<serverUserStatus, selectedUser, listedUser, isBanning, banConfirmed, errorMessage>>
    /\ UNCHANGED otherThanReview

\* changeRequestStatus resolved; the backend has applied the change when
\* its statusCode is 200
ChangeStatusResolved(c, statusCode) ==
    /\ c \in requestCalls
    /\ c.phase = "changeStatus"
    /\ statusCode \in {"200", "400"}
    /\ serverRequests' = IF statusCode = "200"
                         THEN [serverRequests EXCEPT ![c.id] = IF c.approve THEN "APPROVED" ELSE "REJECTED"]
                         ELSE serverRequests
    /\ confirmed' = IF statusCode = "200"
                    THEN [confirmed EXCEPT ![c.id] = @ \cup {IF c.approve THEN "APPROVED" ELSE "REJECTED"}]
                    ELSE confirmed
    /\ afterChangeStatus(c, statusCode)
    /\ UNCHANGED <<serverUserStatus, selectedUser, listedUser, isBanning, banConfirmed, errorMessage>>
    /\ UNCHANGED otherThanReview

\* changeRequestStatus threw: the catch and finally blocks
ChangeStatusThrew(c) ==
    /\ c \in requestCalls
    /\ c.phase = "changeStatus"
    /\ requestCalls' = requestCalls \ {c}
    /\ requestToast' = "Failed to approve or reject request"
    /\ actionLoading' = 0
    /\ UNCHANGED <<serverRequests, requests, confirmed>>
    /\ UNCHANGED <<serverUserStatus, selectedUser, listedUser, isBanning, banConfirmed, errorMessage>>
    /\ UNCHANGED otherThanReview

\* userAPI.registerKeeper settled, in any way: a toast, then the list update
RegisterKeeperSettled(c, outcome) ==
    /\ c \in requestCalls
    /\ c.phase = "registerKeeper"
    /\ requestCalls' = requestCalls \ {c}
    /\ requestToast' = IF outcome = "200" THEN "Keeper Registration Approved!"
                       ELSE "Request approved but keeper registration failed"
    /\ requests' = [requests EXCEPT ![c.id] = "APPROVED"]
    /\ actionLoading' = 0
    /\ UNCHANGED <<serverRequests, confirmed>>
    /\ UNCHANGED <<serverUserStatus, selectedUser, listedUser, isBanning, banConfirmed, errorMessage>>
    /\ UNCHANGED otherThanReview

\* loadRequests(): the list is replaced by the backend's
loadRequests ==
    /\ requests' = serverRequests
    /\ UNCHANGED <<serverRequests, actionLoading, requestCalls, confirmed, requestToast>>
    /\ UNCHANGED <<serverUserStatus, selectedUser, listedUser, isBanning, banConfirmed, errorMessage>>
    /\ UNCHANGED otherThanReview

\* handleBanUser(), up to its await of userAPI.banAccount
handleBanUser ==
    /\ selectedUser = "ACTIVE"
    /\ ~isBanning
    /\ isBanning' = TRUE
    /\ UNCHANGED <<serverUserStatus, selectedUser, listedUser, banConfirmed, errorMessage>>
    /\ UNCHANGED <<serverRequests, requests, actionLoading, requestCalls, confirmed, requestToast>>
    /\ UNCHANGED otherThanReview

\* banAccount resolved: the success modal, then onUserUpdated
BanResolved ==
    /\ isBanning
    /\ serverUserStatus' = "BANNED"
    /\ banConfirmed' = TRUE
    /\ selectedUser' = "BANNED"
    /\ listedUser' = "BANNED"
    /\ isBanning' = FALSE
    /\ UNCHANGED errorMessage
    /\ UNCHANGED <<serverRequests, requests, actionLoading, requestCalls, confirmed, requestToast>>
    /\ UNCHANGED otherThanReview

\* banAccount threw (no token, or the response was not ok): the error modal
BanThrew ==
    /\ isBanning
    /\ errorMessage' = "Failed to ban user"
    /\ isBanning' = FALSE
    /\ UNCHANGED <<serverUserStatus, selectedUser, listedUser, banConfirmed>>
    /\ UNCHANGED <<serverRequests, requests, actionLoading, requestCalls, confirmed, requestToast>>
    /\ UNCHANGED otherThanReview

\* loadUsers() and viewUserDetails(): the user is read again from the backend
reloadUser ==
    /\ selectedUser' = serverUserStatus
    /\ listedUser' = serverUserStatus
    /\ UNCHANGED <<serverUserStatus, isBanning, banConfirmed, errorMessage>>
    /\ UNCHANGED <<serverRequests, requests, actionLoading, requestCalls, confirmed, requestToast>>
    /\ UNCHANGED otherThanReview

ReviewNext ==
    \/ \E r \in Requests, approve \in BOOLEAN : ClickRequestAction(r, approve)
    \/ \E c \in requestCalls, statusCode \in Outcomes : ChangeStatusResolved(c, statusCode)
    \/ \E c \in requestCalls : ChangeStatusThrew(c)
    \/ \E c \in requestCalls, outcome \in Outcomes : RegisterKeeperSettled(c, outcome)
    \/ loadRequests
    \/ handleBanUser
    \/ BanResolved
    \/ BanThrew
    \/ reloadUser

(***************************************************************************)
(* Part 7: remote calls and their timeouts.                                *)
(***************************************************************************)
\* the endpoints called by the payout screen, the user list and the
\* request review
Endpoints == {"start-processing", "upload-proof", "complete-payout",
              "get-all", "change-status"}

NoTimeout == 0

\* the time in ms after which the client gives a call up, NoTimeout when
\* the call is a fetch() without an abort signal
timeout(e) ==
    CASE e = "get-all" -> 5000
      [] e = "change-status" -> 30000
      [] OTHER -> NoTimeout

CallOutcomes == {"none", "ok", "error", "timeout"}

CallsInit ==
    /\ callPending = [e \in Endpoints |-> FALSE]
    /\ callOutcome = [e \in Endpoints |-> "none"]

\* the action's button is enabled and the call is sent
SendCall(e) ==
    /\ ~callPending[e]
    /\ callPending' = [callPending EXCEPT ![e] = TRUE]
    /\ callOutcome' = [callOutcome EXCEPT ![e] = "none"]
    /\ UNCHANGED otherThanCalls

\* the server answers: the awaiting handler resumes or its catch runs
CallAnswered(e, ok) ==
    /\ callPending[e]
    /\ callPending' = [callPending EXCEPT ![e] = FALSE]
    /\ callOutcome' = [callOutcome EXCEPT ![e] = IF ok THEN "ok" ELSE "error"]
    /\ UNCHANGED otherThanCalls

\* the abort timer (or the axios timeout) of the call fires
CallTimedOut(e) ==
    /\ callPending[e]
    /\ timeout(e) # NoTimeout
    /\ callPending' = [callPending EXCEPT ![e] = FALSE]
    /\ callOutcome' = [callOutcome EXCEPT ![e] = "timeout"]
    /\ UNCHANGED otherThanCalls

CallsNext ==
    \/ \E e \in Endpoints : SendCall(e)
    \/ \E e \in Endpoints, ok \in BOOLEAN : CallAnswered(e, ok)
    \/ \E e \in Endpoints : CallTimedOut(e)

(***************************************************************************)
(* Part 8: the complete-payout request.                                    *)
(***************************************************************************)
MaxDescriptionLen == 2
MaxNow == 4

Chars == {" ", "a"}

\* what can be typed into the textarea
Texts == UNION { [1..n -> Chars] : n \in 0..MaxDescriptionLen }

NoRequest == [url |-> 0, body |-> <<>>]

RECURSIVE trimStart(_)
trimStart(t) ==
    IF t # <<>> /\ Head(t) = " " THEN trimStart(Tail(t)) ELSE t

RECURSIVE trimEnd(_)
trimEnd(t) ==
    IF t # <<>> /\ t[Len(t)] = " " THEN trimEnd(SubSeq(t, 1, Len(t) - 1)) ELSE t

\* String.prototype.trim()
trim(t) == trimEnd(trimStart(t))

\* the object handed to completePayoutMutation.mutateAsync()
CompletePayoutRequest(p) ==
    [payoutId |-> p,
     transactionCode |-> <<"AUTO_", now>>,
     description |-> IF trim(description) # <<>> THEN trim(description)
                     ELSE <<"Payout completed">>]

\* StaffPayoutAPI.completePayout(request): the URL's payout and the values
\* serialised into the body
completePayout(request) ==
    [url |-> request.payoutId, body |-> <<request.transactionCode>>]

\* the textarea starts empty; the clock shows any time
CompleteInit ==
    /\ description = <<>>
    /\ now \in 1..MaxNow
    /\ sentRequest = NoRequest

CompleteIdle ==
    /\ CompleteInit
    /\ now = 1

\* the textarea's onChange
setDescription(text) ==
    /\ description' = text
    /\ UNCHANGED <<now, sentRequest>>
    /\ UNCHANGED otherThanComplete

\* time passes
Tick ==
    /\ now < MaxNow
    /\ now' = now + 1
    /\ UNCHANGED <<description, sentRequest>>
    /\ UNCHANGED otherThanComplete

\* handleCompletePayout() with payout p selected, up to the request sent
SendCompletePayout(p) ==
    /\ sentRequest' = completePayout(CompletePayoutRequest(p))
    /\ UNCHANGED <<description, now>>
    /\ UNCHANGED otherThanComplete

CompleteNext ==
    \/ \E text \in Texts : setDescription(text)
    \/ Tick
    \/ \E p \in Payouts : SendCompletePayout(p)

(***************************************************************************)
(* Part 9: the page navigation.                                            *)
(***************************************************************************)
MaxTotalPages == 15

maxVisiblePages == 5

Max(a, b) == IF a > b THEN a ELSE b

\* for (let i = from; i <= to; i++) pages.push(i)
pushRange(from, to) == [k \in 1..(to - from + 1) |-> from + k - 1]

\* generatePageNumbers() with the last pages taken from totalPages - 3
generatePageNumbers_lastFour(current, total) ==
    IF total <= maxVisiblePages
    THEN pushRange(1, total)
    ELSE IF current <= 3 THEN pushRange(1, 5)
         ELSE IF current >= total - 2 THEN pushRange(total - 3, total)
              ELSE pushRange(current - 2, current + 2)

\* Pagination.generatePageNumbers()
generatePageNumbers(current, total) ==
    IF total <= maxVisiblePages
    THEN pushRange(1, total)
    ELSE IF current <= 3 THEN pushRange(1, 5)
         ELSE IF current >= total - 2 THEN pushRange(total - 4, total)
              ELSE pushRange(current - 2, current + 2)

\* the component is rendered for a list of more than one page, whose
\* parent starts on page 1
PaginationInit ==
    /\ totalPages \in 2..MaxTotalPages
    /\ pageOfList = 1
    /\ pageNumbers = generatePageNumbers(pageOfList, totalPages)

PaginationIdle ==
    /\ PaginationInit
    /\ totalPages = 2

\* onPageChange(page): the parent loads the page and renders again
onPageChange(page) ==
    /\ pageOfList' = page
    /\ pageNumbers' = generatePageNumbers(page, totalPages)
    /\ UNCHANGED totalPages
    /\ UNCHANGED otherThanPagination

\* the Previous button
ClickPrevious ==
    /\ pageOfList # 1
    /\ onPageChange(Max(1, pageOfList - 1))

\* a page number button
ClickPageNumber(i) ==
    /\ i \in DOMAIN pageNumbers
    /\ onPageChange(pageNumbers[i])

\* the Next button
ClickNext ==
    /\ pageOfList # totalPages
    /\ onPageChange(Min(totalPages, pageOfList + 1))

PaginationNext ==
    \/ ClickPrevious
    \/ \E i \in 1..maxVisiblePages : ClickPageNumber(i)
    \/ ClickNext

(***************************************************************************)
(* Specifications.                                                         *)
(***************************************************************************)
vars == <<payoutVars, connVars, hookVars, legacyHookVars, pushVars, sessionVars, reviewVars, callVars, completeVars, paginationVars>>

\* the session before the page has loaded, with nothing stored
SessionIdle ==
    /\ SessionInit
    /\ ~staff_token
    /\ staff_user = "absent"

\* the review screens at rest
ReviewIdle ==
    /\ ReviewInit
    /\ serverUserStatus = "ACTIVE"

\* the payout screen at rest, for the specifications of the other parts
PayoutIdle ==
    /\ PayoutInit
    /\ \A p \in Payouts : server[p].status = "NOTPAID"

Init == PayoutInit /\ ConnInit /\ HookInit /\ LegacyHookInit /\ PushInit /\ SessionIdle /\ ReviewIdle /\ CallsInit /\ CompleteIdle /\ PaginationIdle

Next == PayoutNext

\* the payout screen driven through its buttons
Spec == Init /\ [][Next]_vars

NextForced == PayoutNext \/ PayoutDirectNext

\* the payout screen with its handlers also called directly
SpecForced == Init /\ [][NextForced]_vars

InitIdle == PayoutIdle /\ ConnInit /\ HookInit /\ LegacyHookInit /\ PushInit /\ SessionIdle /\ ReviewIdle /\ CallsInit /\ CompleteIdle /\ PaginationIdle

\* the notification client
SpecConn == InitIdle /\ [][ConnNext]_vars

\* the notification hook
SpecHook == InitIdle /\ [][HookNext]_vars

\* the earlier notification hook
SpecLegacyHook == InitIdle /\ [][LegacyHookNext]_vars

\* hub messages from the service to the mounted hooks
SpecPush == InitIdle /\ [][PushNext]_vars

InitSession ==
    PayoutIdle /\ ConnInit /\ HookInit /\ LegacyHookInit /\ PushInit /\ SessionInit /\ ReviewIdle /\ CallsInit /\ CompleteIdle /\ PaginationIdle

\* the stored session from page load on
SpecSession == InitSession /\ [][SessionNext]_vars

InitReview ==
    PayoutIdle /\ ConnInit /\ HookInit /\ LegacyHookInit /\ PushInit /\ SessionIdle /\ ReviewInit /\ CallsInit /\ CompleteIdle /\ PaginationIdle

\* request review and user ban
SpecReview == InitReview /\ [][ReviewNext]_vars

\* remote calls against a server that may never answer: only the client's
\* own timers are certain to fire
SpecCalls ==
    /\ InitIdle
    /\ [][CallsNext]_vars
    /\ \A e \in Endpoints : WF_vars(CallTimedOut(e))

\* the complete-payout request built from what was typed
SpecComplete == InitIdle /\ [][CompleteNext]_vars

InitPagination ==
    PayoutIdle /\ ConnInit /\ HookInit /\ LegacyHookInit /\ PushInit /\ SessionIdle
        /\ ReviewIdle /\ CallsInit /\ CompleteIdle /\ PaginationInit

\* the page navigation of a list
SpecPagination == InitPagination /\ [][PaginationNext]_vars

(***************************************************************************)
(* Properties.                                                             *)
(***************************************************************************)
\* this step sends a remote call of mutation m for payout p
Issued(m, p) == inflight'[m] = Append(inflight[m], p)

\* this step receives the failure of a remote call of mutation m
CallFailed(m) == Len(inflight'[m]) < Len(inflight[m]) /\ server' = server

\* the screen offers a transition of payout p
TransitionOffered(p) ==
    \/ ~ModalOpen /\ (StartButtonShown(p) \/ UploadButtonShown(p) \/ CompleteButtonShown(p))
    \/ selectedPayout = p /\ (UploadModalRendered \/ CompleteModalRendered)

\* the button that submits mutation m for payout p can be pressed
SubmitEnabled(m, p) ==
    CASE m = "start"    -> ~ModalOpen /\ StartButtonEnabled(p)
      [] m = "upload"   -> selectedPayout = p /\ ModalUploadEnabled
      [] m = "complete" -> selectedPayout = p /\ ModalCompleteEnabled

\* C1: a complete-payout call is sent only for a payout whose proof image
\* is set (in the backend or in the list shown) and which has left NOTPAID;
\* without a proof the attempt sends nothing.
C1_CompleteOnlyWithProof ==
    [][\A p \in Payouts :
          Issued("complete", p) =>
              /\ server[p].imageUrl \/ payoutRequests[p].imageUrl
              /\ server[p].status # "NOTPAID"]_vars

\* C2: a start-processing call is sent only for a payout whose status is
\* NOTPAID, also when handleStartProcessing is called directly.
C2_StartOnlyNotPaid ==
    [][\A p \in Payouts :
          Issued("start", p) => payoutRequests[p].status = "NOTPAID"]_vars

\* C3: the status shown for a payout never moves backward, and no step
\* offers a transition for a payout already shown as PAID.
C3_ForwardOnlyAndFrozen ==
    [][\A p \in Payouts :
          /\ StatusRank(payoutRequests'[p].status) >= StatusRank(payoutRequests[p].status)
          /\ (payoutRequests[p].status = "PAID" /\ ~TransitionOffered(p) =>
                  ~TransitionOffered(p)')]_vars

\* C4: the list shown changes only by taking over what the backend has
\* confirmed, and a failed call leaves the list and the selected payout as
\* they were and shows the failure message.
C4_NoOptimisticUpdate ==
    [][/\ (payoutRequests' # payoutRequests =>
              payoutRequests' = server /\ server' = server)
       /\ \A m \in Mutations :
              CallFailed(m) =>
                  /\ payoutRequests' = payoutRequests
                  /\ selectedPayout' = selectedPayout
                  /\ toast'.message \in ErrorMessages]_vars

\* a failed upload is on screen: the message is shown, the modal and the
\* selection are kept, and the backend is ahead of nothing
C4_Witness ==
    /\ toast.title = "Loi upload chung tu"
    /\ toast.message \in ErrorMessages
    /\ UploadModalRendered
    /\ inflight["upload"] = <<>>
    /\ \E p \in Payouts : payoutRequests[p].status = "BUSY" /\ selectedPayout = p

\* C5: no two calls of the same mutation for the same payout are in flight,
\* and while one is in flight its button cannot be pressed.
C5_NoDuplicateInFlight ==
    \A m \in Mutations :
        /\ \A i, j \in 1..Len(inflight[m]) :
               i # j => inflight[m][i] # inflight[m][j]
        /\ \A i \in 1..Len(inflight[m]) : ~SubmitEnabled(m, inflight[m][i])

\* a start call is in flight for a payout whose row still shows the button
C5_Witness ==
    /\ inflight["start"] # <<>>
    /\ ~ModalOpen
    /\ StartButtonShown(inflight["start"][1])

\* newest first: the entries were received in decreasing order
NewestFirst(list) == \A i \in 1..(Len(list) - 1) : list[i] > list[i + 1]

\* C6: every notification list keeps at most MaxNotifications entries,
\* newest first.
C6_AtMostNNewestFirst ==
    /\ Len(notifications) <= MaxNotifications
    /\ Len(keeperRegistrations) <= MaxNotifications
    /\ Len(generalNotifications) <= MaxNotifications
    /\ NewestFirst(keeperRegistrations)
    /\ NewestFirst(generalNotifications)

\* C7: start() on a connected client changes nothing: no connection.start(),
\* no state change, no JoinStaffGroup.
C7_StartWhenConnectedIsNoOp ==
    [][(connState = "Connected" /\ (CallStart \/ ReconnectTimerFires)) =>
          UNCHANGED <<connState, isConnected, reconnectAttempts, startAwaiting,
                      previousRetryCount, retryDelay, joinsOnConnection>>]_vars

\* start() was called on a connected client, which is still connected with
\* its one JoinStaffGroup
C7_Witness ==
    /\ lastCall = <<"start", "Connected">>
    /\ connState = "Connected"
    /\ isConnected
    /\ joinsOnConnection = 1

\* C8: the delay never exceeds the cap and the client gives up after
\* maxReconnectAttempts failed attempts.
C8_GivesUpAfterMaxAttempts ==
    /\ retryDelay <= delays[Len(delays)]
    /\ connState = "Reconnecting" => previousRetryCount < maxReconnectAttempts

\* C9: after stop() no reconnect timer is pending and the client stays
\* Disconnected until start() is called.
C9_StopCancelsReconnect ==
    stopped => /\ connState = "Disconnected"
               /\ reconnectTimers = 0
               /\ ~startAwaiting

C11_StopLeavesStaffGroup ==
    [][(stop /\ connState = "Connected") => lastInvoke' = "LeaveStaffGroup"]_vars

\* C12: when connection.start() fails, the connection is Disconnected,
\* isConnectionActive() is false, and a connect() that awaited the start()
\* sees the rejection and records Disconnected.
C12_FailedStartLeavesDisconnected ==
    [][StartFailed =>
          /\ connState' = "Disconnected"
          /\ ~isConnectionActive'
          /\ (startCaller = "connect" =>
                  /\ connectOutcome' = "rejected"
                  /\ connectionState' = "Disconnected"
                  /\ ~hookIsConnected')]_vars

\* a connect() made after a close has failed: the hook shows Disconnected
C12_Witness ==
    /\ connectOutcome = "rejected"
    /\ lastCall = <<"start", "Disconnected">>
    /\ reconnectAttempts > 0
    /\ connState = "Disconnected"
    /\ ~startAwaiting
    /\ connectionState = "Disconnected"
    /\ ~hookIsConnected

\* the entry of message n in a log of events
HasEvent(log, n, type) == \E i \in 1..Len(log) : log[i] = [n |-> n, type |-> type]

\* C13: every hub message reached the listeners of exactly the hooks that
\* were subscribed when it arrived, carrying the type of its kind, and every
\* hook saw its events in the order of arrival.
C13_DeliveredToAllCurrentSubscribers ==
    /\ \A n \in 1..Len(arrived) : \A h \in Hooks :
           h \in arrived[n].subscribers <=>
               HasEvent(eventLog[h], n, DetailType(arrived[n].method))
    /\ \A h \in Hooks : \A i \in 1..(Len(eventLog[h]) - 1) :
           eventLog[h][i].n < eventLog[h][i + 1].n

\* C14: a listener that throws stops nothing: the event of that message
\* reached every hook subscribed at the time, the handler went on to its
\* badge update, and the only hub callbacks that threw are those of the
\* service's own handlers.
C14_FailingSubscriberIsIsolated ==
    \A n \in failedAt :
        /\ \A h \in arrived[n].subscribers :
               /\ HasEvent(eventLog[h], n, DetailType(arrived[n].method))
               /\ UpdatesBadge(arrived[n].method) =>
                      \E i \in 1..Len(badgeLog[h]) : badgeLog[h][i] = n
        /\ handlerErrors = Cardinality({ m \in 1..Len(arrived) :
                               ServiceHandlerThrows(arrived[m].method, arrived[m].payload) })

\* the first of two listeners threw on message 1; both got it, and both got
\* message 2 after it
C14_Witness ==
    /\ Len(listeners) = NumHooks
    /\ 1 \in failedAt
    /\ ~arrived[1].payload.isNull
    /\ Len(arrived) >= 2
    /\ \A h \in Hooks : Len(eventLog[h]) >= 2 /\ eventLog[h][1].n = 1

\* C18: every hub message adds exactly one entry to the list of every
\* subscribed hook and makes no handler throw.
C18_EveryMessageGivesOneEntry ==
    [][Len(arrived') = Len(arrived) + 1 =>
          /\ handlerErrors' = handlerErrors
          /\ \A h \in Range(listeners) :
                 Len(hookNotifications'[h]) = Len(hookNotifications[h]) + 1]_vars

\* the text includes the piece a
Includes(text, a) == \E i \in 1..Len(text) : text[i] = a

\* C19: the entry made for a ReceivePayoutRequest message that carries an
\* Amount has that amount in its message.
C19_PayoutEntryShowsAmount ==
    \A n \in 1..Len(arrived) : \A h \in arrived[n].subscribers :
        (arrived[n].method = "ReceivePayoutRequest" /\ arrived[n].payload.Amount # "undefined") =>
            \E i \in 1..Len(hookNotifications[h]) :
                /\ hookNotifications[h][i].data = n
                /\ Includes(hookNotifications[h][i].message, arrived[n].payload.Amount)

\* C15: a 401 answer to any call clears the stored token and profile and
\* takes the App to its unauthenticated view.
C15_UnauthorizedClearsSession ==
    [][\A call \in HttpCalls :
          Unauthorized(call) =>
              /\ ~staff_token'
              /\ staff_user' = "absent"
              /\ user' = "null"]_vars

\* C16: a logout leaves neither token nor profile stored and shows the
\* unauthenticated view; startup restores the session only from a token
\* with a staff profile, and clears both when the profile does not parse.
C16_LogoutClearsSession ==
    [][/\ (AppHandleLogout \/ DashboardHandleLogout) =>
              /\ ~staff_token'
              /\ staff_user' = "absent"
              /\ user' = "null"
       /\ initializeAuth =>
              /\ user' = "staff" => staff_token /\ staff_user = "staff"
              /\ (staff_token /\ staff_user = "unparseable") =>
                     ~staff_token' /\ staff_user' = "absent"]_vars

\* C17: the list's status of a request changes only to a status a 200
\* response has confirmed or to the backend's on a reload, the user's
\* status likewise, and a call that fails changes neither.
C17_MutatedOnlyAfterConfirmation ==
    [][/\ \A r \in Requests :
              requests'[r] # requests[r] =>
                  \/ requests'[r] \in confirmed'[r]
                  \/ requests' = serverRequests
       /\ (selectedUser' # selectedUser \/ listedUser' # listedUser) =>
              \/ selectedUser' = "BANNED" /\ listedUser' = "BANNED" /\ banConfirmed'
              \/ selectedUser' = serverUserStatus /\ listedUser' = serverUserStatus
       /\ ((\E c \in requestCalls : ChangeStatusThrew(c) \/ ChangeStatusResolved(c, "400"))
              \/ BanThrew) =>
              UNCHANGED <<requests, selectedUser, listedUser>>]_vars

\* a rejection came back with statusCode 400 and an approval was confirmed:
\* the first request is still listed PENDING, the second APPROVED, and the
\* failed ban has left the user ACTIVE with the error shown
C17_Witness ==
    /\ requestCalls = {}
    /\ requests[1] = "PENDING"
    /\ confirmed[1] = {}
    /\ requests[2] = "APPROVED"
    /\ confirmed[2] = {"APPROVED"}
    /\ errorMessage # ""
    /\ selectedUser = "ACTIVE"
    /\ ~banConfirmed

\* C20: an upload-proof call is sent only with a file chosen and for a
\* payout listed as BUSY without a proof image; a run of handleUploadProof
\* with no file or no selected payout sends nothing and shows the
\* "choose a proof file" error.
C20_UploadOnlyBusyWithoutProof ==
    [][/\ \A p \in Payouts :
              Issued("upload", p) =>
                  /\ uploadFile
                  /\ payoutRequests[p].status = "BUSY"
                  /\ ~payoutRequests[p].imageUrl
       /\ (DirectUploadProof /\ (~uploadFile \/ selectedPayout = NoPayout) =>
              /\ inflight' = inflight
              /\ toast'.message = "Vui long chon file chung tu")]_vars

\* C21: every remote call that is awaited ends on the client side, by an
\* answer or by a timeout, and its in-flight flag is released.
C21_EveryCallEnds ==
    \A e \in Endpoints : callPending[e] ~> ~callPending[e]

\* C22: every complete-payout request sent carries the description typed
\* (the default text when blank) and a non-empty transaction reference.
C22_RequestCarriesDescriptionAndReference ==
    [][\A p \in Payouts :
          SendCompletePayout(p) =>
              /\ \E i \in DOMAIN sentRequest'.body :
                     sentRequest'.body[i] = CompletePayoutRequest(p).transactionCode
              /\ CompletePayoutRequest(p).transactionCode # <<>>
              /\ \E i \in DOMAIN sentRequest'.body :
                     sentRequest'.body[i] = CompletePayoutRequest(p).description]_vars

\* C23: when a successful upload opens the Complete Payout modal, the modal
\* (and so the complete call sent from it) targets the payout whose proof
\* was uploaded.
C23_CompleteModalTargetsUploadedPayout ==
    [][\A i \in 1..Len(inflight["upload"]) :
          UploadProofSucceeded(i) /\ CompleteModalRendered' =>
              selectedPayout' = inflight["upload"][i]]_vars

\* C24: while a status-change call for a request is in flight its Approve
\* and Reject buttons are disabled, and no request has two calls in flight.
C24_ButtonsDisabledWhileInFlight ==
    \A r \in Requests :
        /\ RunsOf(r) # {} => ~ActionButtonsEnabled(r)
        /\ Cardinality(RunsOf(r)) <= 1

\* C25: a register-keeper call is sent only by an approval of a keeper
\* registration whose change-status call returned 200; when it fails the
\* request is listed APPROVED and the failure warning is shown.
C25_RegisterKeeperAfterApproval ==
    [][/\ \A c \in requestCalls' \ requestCalls :
              c.phase = "registerKeeper" =>
                  /\ c.approve
                  /\ TypeOf(c.id) = "KEEPER_REGISTRATION"
                  /\ [c EXCEPT !.phase = "changeStatus"] \in requestCalls
                  /\ ChangeStatusResolved([c EXCEPT !.phase = "changeStatus"], "200")
       /\ \A c \in requestCalls, outcome \in Outcomes \ {"200"} :
              RegisterKeeperSettled(c, outcome) =>
                  /\ requests'[c.id] = "APPROVED"
                  /\ requestToast' = "Request approved but keeper registration failed"]_vars

\* the keeper registration was approved, its register-keeper call failed,
\* and the request is listed APPROVED under the failure warning
C25_Witness ==
    /\ requestCalls = {}
    /\ TypeOf(1) = "KEEPER_REGISTRATION"
    /\ requests[1] = "APPROVED"
    /\ confirmed[1] = {"APPROVED"}
    /\ requestToast = "Request approved but keeper registration failed"

\* C26: when the hook's connect() resolves and records Connected, the
\* service's connection is in state Connected.
C26_ConnectResolvesOnlyWhenConnected ==
    [][(\/ CallStart /\ connState # "Disconnected"
        \/ StartSucceeded /\ startCaller = "connect") =>
           /\ connectOutcome' = "resolved"
           /\ hookIsConnected'
           /\ connectionState' = "Connected"
           /\ connState' = "Connected"]_vars

\* C27: reconnectAttempts stays within 0..maxReconnectAttempts; it grows
\* only by one, in the close handler together with one reconnect timer, no
\* timer is scheduled otherwise, and every successful start and every
\* successful automatic reconnect resets it to 0.
C27_ReconnectAttemptsBounded ==
    [][/\ reconnectAttempts' \in 0..maxReconnectAttempts
       /\ reconnectAttempts' # reconnectAttempts =>
              \/ /\ reconnectAttempts' = reconnectAttempts + 1
                 /\ reconnectTimers' = reconnectTimers + 1
                 /\ connState \in {"Connected", "Reconnecting"}
                 /\ connState' = "Disconnected"
              \/ /\ reconnectAttempts' = 0
                 /\ StartSucceeded \/ ReconnectAttemptSucceeded
       /\ reconnectTimers' > reconnectTimers =>
              reconnectAttempts' = reconnectAttempts + 1
       /\ (StartSucceeded \/ ReconnectAttemptSucceeded) =>
              reconnectAttempts' = 0]_vars

\* connected again with the counter back at 0 while the timer scheduled by
\* the earlier close is still pending
C27_Witness ==
    /\ connState = "Connected"
    /\ reconnectAttempts = 0
    /\ reconnectTimers = 1
    /\ isConnected

\* C28: unreadCount grows by one with every notification event received
\* and changes otherwise only by a reset to 0; markAsRead resets it and
\* keeps the list, clearNotifications empties the list, resets the count
\* and sets lastNotification to null.
C28_UnreadCountsEventsSinceReset ==
    [][/\ received' = received + 1 => unreadCount' = unreadCount + 1
       /\ unreadCount' # unreadCount =>
              received' = received + 1 \/ unreadCount' = 0
       /\ markAsRead =>
              unreadCount' = 0 /\ notifications' = notifications
       /\ clearNotifications =>
              /\ notifications' = <<>>
              /\ unreadCount' = 0
              /\ lastNotification' = NoNotification]_vars

\* C29: whenever the dashboard is shown the user has staff access and a
\* token is stored; a login without staff access stores nothing and shows
\* no dashboard; a stored profile without staff access is cleared at
\* startup together with the token.
C29_DashboardOnlyForStaffWithToken ==
    [][/\ user' # "null" => user' = "staff" /\ staff_token'
       /\ LoginDenied =>
              user' = "null" /\ UNCHANGED <<staff_token, staff_user>>
       /\ (initializeAuth /\ staff_token /\ staff_user = "noaccess") =>
              /\ ~staff_token'
              /\ staff_user' = "absent"
              /\ user' = "null"]_vars

\* C30: for more than one page and a current page within 1..totalPages,
\* the page numbers are min(5, totalPages) consecutive integers within
\* 1..totalPages, and the current page is one of them.
C30_PageNumbersWindow ==
    (totalPages > 1 /\ pageOfList \in 1..totalPages) =>
        /\ pageNumbers = generatePageNumbers(pageOfList, totalPages)
        /\ Len(pageNumbers) = Min(5, totalPages)
        /\ \A k \in 1..(Len(pageNumbers) - 1) : pageNumbers[k + 1] = pageNumbers[k] + 1
        /\ \A k \in DOMAIN pageNumbers : pageNumbers[k] \in 1..totalPages
        /\ \E k \in DOMAIN pageNumbers : pageNumbers[k] = pageOfList

\* a list of 8 pages: on page 4 the window is centred, on page 7 it is the
\* last five pages
C30_Witness ==
    /\ totalPages = 8
    /\ \/ pageOfList = 4 /\ pageNumbers = <<2, 3, 4, 5, 6>>
       \/ pageOfList = 7 /\ pageNumbers = <<4, 5, 6, 7, 8>>

====
